---- MODULE Spec2Model ----
(***************************************************************************)
(* Model of src/app/page.tsx: the product listing page.  getProducts       *)
(* fetches the catalog with one uncached GET; Home awaits it, derives the  *)
(* sorted category list and the JSON-LD item list, and builds the markup.  *)
(*                                                                         *)
(* Strings that the code compares (categories) are sequences of UTF-16     *)
(* code units, as Array.prototype.sort compares them.  Strings that are    *)
(* only echoed or concatenated (titles, urls, labels) are TLA+ strings.    *)
(* A price is either a number, kept in eighths so that toFixed(2) meets    *)
(* exact ties, or a JSON value that is not a number.                       *)
(***************************************************************************)
EXTENDS Integers, Sequences, FiniteSets, TLC

\* ---------------------------------------------------------------- bounds

MaxLen == 3          \* longest catalog the upstream serves
MaxChanges == 1      \* how many times the upstream catalog changes
NumRenders == 2      \* page requests in flight

Renders == 1..NumRenders

\* ------------------------------------------------------ the Product type

Product(i, t, p, c) == [id |-> i, title |-> t, price |-> p, category |-> c]

Num(e) == [num |-> TRUE, eighths |-> e]

NotANumber == [num |-> FALSE, eighths |-> 0]

\* the categories "ab", "B", "ab", "a" as code units: "B" (66) sorts before
\* "a" (97), and "a" before "ab"; the prices 9.5, 20, 0.125 and a non-number
Pool ==
    { Product(1, "A", Num(76), <<97, 98>>),
      Product(2, "B", Num(160), <<66>>),
      Product(10, "C", Num(1), <<97, 98>>),
      Product(12, "A", NotANumber, <<97>>) }

NewArrivals == { p \in Pool : p.id \in {2, 12} }

\* a product's id is unique in the catalog
UniqueIds(L) == \A i, j \in 1..Len(L) : L[i].id = L[j].id => i = j

RECURSIVE ListsUpTo(_)
ListsUpTo(n) ==
    IF n = 0 THEN { <<>> }
    ELSE LET shorter == ListsUpTo(n - 1)
             longest == { s \in shorter : Len(s) = n - 1 }
         IN  shorter \cup { Append(l, p) : l \in longest, p \in Pool }

Some(x) == <<x>>

None == <<>>

\* ------------------------------------------- line 29: the category list

\* a variant that skips the first product
MapCategory_skipFirst(L) == [i \in 1..(Len(L) - 1) |-> L[i + 1].category]

\* products.map((p) => p.category): a new array, the receiver untouched
MapCategory(L) == [i \in 1..Len(L) |-> L[i].category]

\* new Set(arr): insertion order, the first occurrence of each value kept
RECURSIVE NewSet(_)
NewSet(arr) ==
    IF arr = <<>> THEN <<>>
    ELSE LET front == NewSet(SubSeq(arr, 1, Len(arr) - 1))
             last == arr[Len(arr)]
         IN  IF \E k \in 1..Len(front) : front[k] = last
             THEN front
             ELSE Append(front, last)

\* Array.from(set): a fresh array in the set's insertion order
ArrayFrom(set) == set

Min(a, b) == IF a < b THEN a ELSE b

\* the default comparison of sort(): x before y by UTF-16 code units
CodeUnitLess(x, y) ==
    LET n == Min(Len(x), Len(y))
        diff == { k \in 1..n : x[k] # y[k] }
    IN  IF diff = {}
        THEN Len(x) < Len(y)
        ELSE LET k == CHOOSE j \in diff : \A m \in diff : j <= m
             IN  x[k] < y[k]

\* one insertion of the stable sort: v goes after every element not greater
RECURSIVE InsertSorted(_, _)
InsertSorted(arr, v) ==
    IF arr = <<>> THEN <<v>>
    ELSE IF CodeUnitLess(v, arr[Len(arr)])
         THEN Append(InsertSorted(SubSeq(arr, 1, Len(arr) - 1), v), arr[Len(arr)])
         ELSE Append(arr, v)

\* a variant in which the array is left in insertion order
ArraySort_unsorted(arr) == arr

\* arr.sort() with no comparator
RECURSIVE ArraySort(_)
ArraySort(arr) ==
    IF arr = <<>> THEN <<>>
    ELSE InsertSorted(ArraySort(SubSeq(arr, 1, Len(arr) - 1)), arr[Len(arr)])

\* the same stable sort, of products by their category
RECURSIVE InsertByCategory(_, _)
InsertByCategory(arr, p) ==
    IF arr = <<>> THEN <<p>>
    ELSE IF CodeUnitLess(p.category, arr[Len(arr)].category)
         THEN Append(InsertByCategory(SubSeq(arr, 1, Len(arr) - 1), p), arr[Len(arr)])
         ELSE Append(arr, p)

RECURSIVE SortByCategory(_)
SortByCategory(L) ==
    IF L = <<>> THEN <<>>
    ELSE InsertByCategory(SortByCategory(SubSeq(L, 1, Len(L) - 1)), L[Len(L)])

\* a variant that sorts the product array itself before reading categories
CategoriesStep_inplace(L) ==
    [ products |-> SortByCategory(L),
      categories |-> ArrayFrom(NewSet(MapCategory(SortByCategory(L)))) ]

\* the statement of line 29: the value of categories, and the product
\* array as the statement leaves it (sort() works on the fresh array)
CategoriesStep(L) ==
    [ products |-> L,
      categories |-> ArraySort(ArrayFrom(NewSet(MapCategory(L)))) ]

\* ------------------------------------- lines 31-46: the JSON-LD document

DigitStr == <<"0", "1", "2", "3", "4", "5", "6", "7", "8", "9">>

\* a variant that keeps only the last digit
NumToStr_lastDigit(n) == DigitStr[(n % 10) + 1]

\* a non-negative integer in a template literal or as a text child
RECURSIVE NumToStr(_)
NumToStr(n) ==
    IF n < 10 THEN DigitStr[n + 1]
    ELSE NumToStr(n \div 10) \o DigitStr[(n % 10) + 1]

UrlPrefix == "https://example.com/products/"

\* a variant whose position is the 0-based index
ListItem_zeroBased(product, index) ==
    [ type |-> "ListItem",
      position |-> index,
      url |-> UrlPrefix \o NumToStr(product.id),
      name |-> product.title ]

ListItem(product, index) ==
    [ type |-> "ListItem",
      position |-> index + 1,
      url |-> UrlPrefix \o NumToStr(product.id),
      name |-> product.title ]

\* products.map((product, index) => ...), index counted from 0
ItemListElement(L) == [i \in 1..Len(L) |-> ListItem(L[i], i - 1)]

SchemaOf(L) ==
    [ context |-> "https://schema.org",
      type |-> "CollectionPage",
      name |-> "Discover Our Products",
      mainEntity |-> [ type |-> "ItemList", itemListElement |-> ItemListElement(L) ] ]

\* ------------------------------------------- lines 48-239: the markup

\* price.toFixed(2) throws a TypeError unless price is a number
ToFixedThrows(price) == ~price.num

\* toFixed(2) of e/8: the nearest hundredth, the larger one on a tie
ToFixed2(price) ==
    LET n == (200 * price.eighths + 8) \div 16
        cents == n % 100
    IN  NumToStr(n \div 100) \o "." \o DigitStr[(cents \div 10) + 1] \o DigitStr[(cents % 10) + 1]

Card(product) ==
    [ key |-> product.id,
      ariaLabel |-> product.title,
      alt |-> product.title \o " product image",
      title |-> product.title,
      category |-> product.category,
      price |-> "$" \o ToFixed2(product.price) ]

\* products.map((product) => <article .../>)
Cards(L) == [i \in 1..Len(L) |-> Card(L[i])]

\* a variant that counts the categories instead of the products
ItemCountLabel_categories(L) ==
    NumToStr(Len(NewSet(MapCategory(L)))) \o " items from Fake Store API"

\* {products.length} items from Fake Store API
ItemCountLabel(L) == NumToStr(Len(L)) \o " items from Fake Store API"

\* categories.map((category) => <li key={category}> ... disabled checkbox)
FilterItems(cats) ==
    [i \in 1..Len(cats) |-> [key |-> cats[i], value |-> cats[i], disabled |-> TRUE]]

Markup(L, cats, schema) ==
    [ script |-> schema,
      filters |-> FilterItems(cats),
      label |-> ItemCountLabel(L),
      cards |-> Cards(L) ]

\* a variant that also reads the price of a first product that is not there
MarkupThrows_first(L) == L = <<>> \/ \E i \in 1..Len(L) : ToFixedThrows(L[i].price)

\* building the cards throws when some price.toFixed(2) does
MarkupThrows(L) == \E i \in 1..Len(L) : ToFixedThrows(L[i].price)

\* ------------------------------------------------------------- the state

VARIABLES
    catalog,     \* the product list the catalog endpoint currently holds
    changes,     \* how many times the catalog has changed
    pc,          \* per render: idle, fetching, reading, done, failed
    gets,        \* per render: GETs issued to the catalog endpoint
    startedAt,   \* per render: the value of changes when its GET was issued
    status,      \* per render: none, ok, notok (response.ok false), neterr
    respBody,    \* per render: the list carried by the response, if any
    products,    \* per render: Home's products array, if getProducts returned
    categories,  \* per render: Home's categories, if computed
    schema,      \* per render: Home's schema, if computed
    page,        \* per render: the markup Home returned, if any
    error        \* per render: the error that ended it, or "none"

vars == << catalog, changes, pc, gets, startedAt, status, respBody,
           products, categories, schema, page, error >>

outputs == << products, categories, schema, page >>

Terminal == {"done", "failed"}

Init ==
    /\ catalog \in { L \in ListsUpTo(MaxLen) : UniqueIds(L) }
    /\ changes = 0
    /\ pc = [r \in Renders |-> "idle"]
    /\ gets = [r \in Renders |-> 0]
    /\ startedAt = [r \in Renders |-> 0]
    /\ status = [r \in Renders |-> "none"]
    /\ respBody = [r \in Renders |-> None]
    /\ products = [r \in Renders |-> None]
    /\ categories = [r \in Renders |-> None]
    /\ schema = [r \in Renders |-> None]
    /\ page = [r \in Renders |-> None]
    /\ error = [r \in Renders |-> "none"]

\* ------------------------------------------------ lines 14-24: getProducts

\* a variant that answers from the list another render already holds
ResponseBody_memo(r) ==
    IF \E s \in Renders : respBody[s] # None
    THEN (CHOOSE b \in { respBody[s] : s \in Renders } : b # None)[1]
    ELSE catalog

\* cache: "no-store": the response carries what the endpoint holds now
ResponseBody(r) == catalog

\* Home is called: getProducts issues the GET and suspends on it
\* (requests are numbered in the order they arrive)
StartRender(r) ==
    /\ pc[r] = "idle"
    /\ \A s \in Renders : s < r => pc[s] # "idle"
    /\ pc' = [pc EXCEPT ![r] = "fetching"]
    /\ gets' = [gets EXCEPT ![r] = @ + 1]
    /\ startedAt' = [startedAt EXCEPT ![r] = changes]
    /\ UNCHANGED << catalog, changes, status, respBody, outputs, error >>

\* a variant that issues the GET again on a non-success status
FetchResolves_retry(r, ok) ==
    /\ pc[r] = "fetching"
    /\ IF ok
       THEN /\ pc' = [pc EXCEPT ![r] = "reading"]
            /\ status' = [status EXCEPT ![r] = "ok"]
            /\ respBody' = [respBody EXCEPT ![r] = Some(ResponseBody(r))]
            /\ UNCHANGED << error, gets >>
       ELSE /\ gets[r] < 3
            /\ gets' = [gets EXCEPT ![r] = @ + 1]
            /\ UNCHANGED << pc, status, respBody, error >>
    /\ UNCHANGED << catalog, changes, startedAt, outputs >>

\* a variant without the response.ok test
FetchResolves_nocheck(r, ok) ==
    /\ pc[r] = "fetching"
    /\ pc' = [pc EXCEPT ![r] = "reading"]
    /\ status' = [status EXCEPT ![r] = IF ok THEN "ok" ELSE "notok"]
    /\ respBody' = [respBody EXCEPT ![r] = Some(ResponseBody(r))]
    /\ UNCHANGED << catalog, changes, gets, startedAt, outputs, error >>

\* the fetch promise resolves with a response; lines 19-23
FetchResolves(r, ok) ==
    /\ pc[r] = "fetching"
    /\ IF ok
       THEN /\ pc' = [pc EXCEPT ![r] = "reading"]
            /\ status' = [status EXCEPT ![r] = "ok"]
            /\ respBody' = [respBody EXCEPT ![r] = Some(ResponseBody(r))]
            /\ UNCHANGED error
       ELSE /\ pc' = [pc EXCEPT ![r] = "failed"]
            /\ status' = [status EXCEPT ![r] = "notok"]
            /\ error' = [error EXCEPT ![r] = "FetchError"]
            /\ UNCHANGED respBody
    /\ UNCHANGED << catalog, changes, gets, startedAt, outputs >>

\* the fetch promise rejects: the network call failed outright
FetchRejects(r) ==
    /\ pc[r] = "fetching"
    /\ pc' = [pc EXCEPT ![r] = "failed"]
    /\ status' = [status EXCEPT ![r] = "neterr"]
    /\ error' = [error EXCEPT ![r] = "NetworkError"]
    /\ UNCHANGED << catalog, changes, gets, startedAt, respBody, outputs >>

\* response.json() rejects: the body of a success response is not JSON
JsonRejects(r) ==
    /\ pc[r] = "reading"
    /\ pc' = [pc EXCEPT ![r] = "failed"]
    /\ error' = [error EXCEPT ![r] = "SyntaxError"]
    /\ UNCHANGED << catalog, changes, gets, startedAt, status, respBody, outputs >>

\* ------------------------------------------------------ lines 26-240: Home

\* response.json() resolves; Home resumes and runs to its end in one turn
JsonResolves(r) ==
    /\ pc[r] = "reading"
    /\ LET L == respBody[r][1]
           step == CategoriesStep(L)
           doc == SchemaOf(step.products)
       IN  /\ products' = [products EXCEPT ![r] = Some(step.products)]
           /\ categories' = [categories EXCEPT ![r] = Some(step.categories)]
           /\ schema' = [schema EXCEPT ![r] = Some(doc)]
           /\ IF MarkupThrows(step.products)
              THEN /\ pc' = [pc EXCEPT ![r] = "failed"]
                   /\ error' = [error EXCEPT ![r] = "TypeError"]
                   /\ UNCHANGED page
              ELSE /\ pc' = [pc EXCEPT ![r] = "done"]
                   /\ page' = [page EXCEPT ![r] =
                                 Some(Markup(step.products, step.categories, doc))]
                   /\ UNCHANGED error
    /\ UNCHANGED << catalog, changes, gets, startedAt, status, respBody >>

\* ---------------------------------------------------------- the upstream

\* the endpoint's list changes: a product is added or the first one removed
UpstreamChange ==
    /\ changes < MaxChanges
    /\ changes' = changes + 1
    /\ \/ /\ catalog # <<>>
          /\ catalog' = Tail(catalog)
       \/ /\ Len(catalog) < MaxLen
          /\ \E p \in NewArrivals :
                /\ UniqueIds(Append(catalog, p))
                /\ catalog' = Append(catalog, p)
    /\ UNCHANGED << pc, gets, startedAt, status, respBody, outputs, error >>

Next ==
    \/ \E r \in Renders : StartRender(r)
    \/ \E r \in Renders : \E ok \in BOOLEAN : FetchResolves(r, ok)
    \/ \E r \in Renders : FetchRejects(r)
    \/ \E r \in Renders : JsonRejects(r)
    \/ \E r \in Renders : JsonResolves(r)
    \/ UpstreamChange

Spec == Init /\ [][Next]_vars

\* ------------------------------------------------------------ properties

Fetched(r) == respBody[r][1]

\* x before y in lexicographic order, read off the strings from the front
RECURSIVE LexLess(_, _)
LexLess(x, y) ==
    IF y = <<>> THEN FALSE
    ELSE IF x = <<>> THEN TRUE
    ELSE IF x[1] # y[1] THEN x[1] < y[1]
    ELSE LexLess(Tail(x), Tail(y))

Unsorted(arr) == \E i, j \in 1..Len(arr) : i < j /\ LexLess(arr[j], arr[i])

HasDuplicate(arr) == \E i, j \in 1..Len(arr) : i < j /\ arr[i] = arr[j]

\* C1: the category list Home computes has no duplicate strings and is in
\* ascending lexicographic order, whatever list was fetched.
C1_CategoriesSortedDistinct ==
    \A r \in Renders :
        categories[r] # None =>
            LET c == categories[r][1]
            IN  /\ \A i, j \in 1..Len(c) : i # j => c[i] # c[j]
                /\ \A i, j \in 1..Len(c) : i < j => LexLess(c[i], c[j])

C1_Witness ==
    \E r \in Renders :
        /\ categories[r] # None
        /\ Len(categories[r][1]) >= 2
        /\ Unsorted(MapCategory(Fetched(r)))
        /\ HasDuplicate(MapCategory(Fetched(r)))

\* C2: the structured-data document has exactly one itemListElement entry
\* per fetched product, and the entry at 0-based index i has position i + 1.
C2_ItemListPositions ==
    \A r \in Renders :
        schema[r] # None =>
            LET items == schema[r][1].mainEntity.itemListElement
            IN  /\ Len(items) = Len(Fetched(r))
                /\ \A k \in 1..Len(items) : items[k].position = (k - 1) + 1

C2_Witness ==
    \E r \in Renders :
        /\ schema[r] # None
        /\ Len(schema[r][1].mainEntity.itemListElement) >= 3

\* C3: after a non-success status the render has failed with the error of
\* getProducts, and it holds no product list, category list, structured-data
\* document or markup.
C3_NotOkAbortsRender ==
    \A r \in Renders :
        status[r] = "notok" =>
            /\ pc[r] = "failed"
            /\ error[r] = "FetchError"
            /\ respBody[r] = None
            /\ products[r] = None
            /\ categories[r] = None
            /\ schema[r] = None
            /\ page[r] = None

C3_Witness ==
    \E r, s \in Renders :
        /\ status[r] = "notok"
        /\ pc[r] = "failed"
        /\ pc[s] = "done"

NothingDerived(r) ==
    /\ products[r] = None
    /\ categories[r] = None
    /\ schema[r] = None
    /\ page[r] = None

\* C4: a render issues exactly one GET, before any derivation or markup;
\* no step issues a second one, whatever the fetch's outcome; and the render
\* ends either with a page and no error or with an error and no page, and
\* stays there.
C4_SinglePassNoRetry ==
    /\ [](\A r \in Renders :
            /\ pc[r] = "idle" => gets[r] = 0 /\ NothingDerived(r)
            /\ pc[r] # "idle" => gets[r] = 1
            /\ pc[r] \in {"fetching", "reading"} => NothingDerived(r)
            /\ pc[r] = "done" <=> page[r] # None
            /\ pc[r] = "failed" <=> error[r] # "none"
            /\ ~(page[r] # None /\ error[r] # "none"))
    /\ [][\A r \in Renders :
            /\ gets'[r] # gets[r] => pc[r] = "idle" /\ gets'[r] = 1
            /\ pc[r] \in Terminal =>
                 /\ pc'[r] = pc[r]
                 /\ page'[r] = page[r]
                 /\ error'[r] = error[r]]_vars

C4_Witness ==
    \E r, s, t \in Renders :
        /\ pc[r] = "done" /\ gets[r] = 1
        /\ pc[s] = "failed" /\ gets[s] = 1
        /\ pc[t] = "failed" /\ status[t] = "neterr"

AllPricesNumbers(L) == \A i \in 1..Len(L) : L[i].price.num

C6_UncachedIsolatedRenders ==
    /\ [](\A r \in Renders :
            /\ products[r] # None => products[r] = respBody[r]
            /\ (pc[r] = "done" /\ startedAt[r] = changes) =>
                 /\ products[r] = Some(catalog)
                 /\ categories[r] = Some(CategoriesStep(catalog).categories)
                 /\ schema[r] = Some(SchemaOf(catalog)))
    /\ [][\A r \in Renders :
            /\ (pc[r] = "fetching" /\ pc'[r] = "reading") =>
                 respBody'[r] = Some(catalog)
            /\ pc'[r] = pc[r] =>
                 /\ respBody'[r] = respBody[r]
                 /\ products'[r] = products[r]
                 /\ categories'[r] = categories[r]
                 /\ schema'[r] = schema[r]
                 /\ page'[r] = page[r]]_vars

C6_Witness ==
    \E r, s \in Renders :
        /\ pc[r] = "done"
        /\ pc[s] = "done"
        /\ startedAt[r] < startedAt[s]
        /\ products[r] # products[s]
        /\ products[s] = Some(catalog)

C8_CategoriesAreTheProductsCategories ==
    \A r \in Renders :
        categories[r] # None =>
            LET c == categories[r][1]
                L == Fetched(r)
            IN  /\ \A k \in 1..Len(c) : \E i \in 1..Len(L) : L[i].category = c[k]
                /\ \A i \in 1..Len(L) :
                     Cardinality({ k \in 1..Len(c) : c[k] = L[i].category }) = 1
                /\ page[r] # None =>
                     /\ Len(page[r][1].filters) = Len(c)
                     /\ \A k \in 1..Len(c) : page[r][1].filters[k].value = c[k]

C8_Witness ==
    \E r \in Renders :
        /\ page[r] # None
        /\ Len(categories[r][1]) >= 2
        /\ HasDuplicate(MapCategory(Fetched(r)))
        /\ Fetched(r)[1].category # categories[r][1][1]

\* C9: the grid has one card per fetched product, in the order of the list,
\* and the label shows the length of the list; for the empty list there are
\* no categories, no cards, and the label starts "0 items".
C9_OneCardPerProduct ==
    \A r \in Renders :
        page[r] # None =>
            LET L == Fetched(r)
                grid == page[r][1].cards
            IN  /\ Len(grid) = Len(L)
                /\ \A i \in 1..Len(L) :
                     /\ grid[i].key = L[i].id
                     /\ grid[i].title = L[i].title
                     /\ grid[i].category = L[i].category
                /\ page[r][1].label = ToString(Len(L)) \o " items from Fake Store API"
                /\ L = <<>> =>
                     /\ categories[r] = Some(<<>>)
                     /\ grid = <<>>
                     /\ page[r][1].label = "0 items from Fake Store API"

C9_Witness ==
    \E r, s \in Renders :
        /\ page[r] # None
        /\ Fetched(r) = <<>>
        /\ page[s] # None
        /\ Len(page[s][1].cards) >= 1

\* C10: the i-th entry of the item list carries the title of the i-th fetched
\* product and the url made of its id, so the entries are in the order of the
\* list and products with different ids have different urls.
C10_EntriesFollowTheList ==
    \A r \in Renders :
        schema[r] # None =>
            LET L == Fetched(r)
                items == schema[r][1].mainEntity.itemListElement
            IN  /\ Len(items) = Len(L)
                /\ \A i \in 1..Len(L) :
                     /\ items[i].name = L[i].title
                     /\ items[i].url = "https://example.com/products/" \o ToString(L[i].id)
                /\ \A i, j \in 1..Len(L) :
                     L[i].id # L[j].id => items[i].url # items[j].url

C10_Witness ==
    \E r \in Renders :
        /\ schema[r] # None
        /\ \E i, j \in 1..Len(Fetched(r)) :
             /\ i < j
             /\ Fetched(r)[i].id = 12
             /\ Fetched(r)[j].id = 2
        /\ \E i, j \in 1..Len(Fetched(r)) :
             /\ i # j
             /\ Fetched(r)[i].title = Fetched(r)[j].title

====
